---- MODULE Spec2Model ----
(***************************************************************************)
(* Model of staticfiles/js/main.js (Electro storefront page script).       *)
(*                                                                         *)
(* The script runs once at page load (startup sequence, lines 1-198) and   *)
(* registers five listeners plus one timer.  After startup the browser's   *)
(* event loop runs one callback at a time: the spinner timeout, a scroll   *)
(* event, a click on a quantity button, a click on an anchor, a frame of   *)
(* the jQuery scroll animation.                                            *)
(*                                                                         *)
(* Numbers of the quantity field are kept in tenths (fixed point), so that *)
(* 0.5 is the integer 5; the field itself holds a string, modelled as a    *)
(* sequence of one-character strings.                                      *)
(***************************************************************************)
EXTENDS Integers, Sequences, FiniteSets, TLC

VARIABLES
    pc,             \* position of the startup sequence
    owlIdx,         \* index of the next carousel block (1..5)
    hasWOW,         \* typeof WOW !== 'undefined'
    hasOwl,         \* $.fn.owlCarousel is defined
    hasEasing,      \* $.easing.easeInOutExpo is defined
    timer,          \* the setTimeout of spinner(): "none", "pending", "fired"
    spinnerShow,    \* #spinner exists and carries class 'show'
    wowInits,       \* number of calls of new WOW().init()
    owlCalls,       \* selectors on which .owlCarousel(...) was called, in order
    listeners,      \* listeners registered so far
    scrollTop,      \* vertical scroll offset of the page
    handledOffset,  \* offset reported by the last handled scroll event
    navSticky,      \* .nav-bar carries 'sticky-top shadow-sm'
    bttFade,        \* last fade requested on .back-to-top
    qtyInit,        \* string the quantity input held at page load
    qty,            \* string the quantity input holds
    fxQueue,        \* jQuery fx queue of the scrolling element
    animStart,      \* scrollTop at the start of the running animation
    animElapsed,    \* milliseconds the running animation has run
    urlFragment,    \* fragment of the page URL
    events          \* click event being dispatched (at most one)

vars == <<pc, owlIdx, hasWOW, hasOwl, hasEasing, timer, spinnerShow,
          wowInits, owlCalls, listeners, scrollTop, handledOffset, navSticky,
          bttFade, qtyInit, qty, fxQueue, animStart, animElapsed, urlFragment,
          events>>

startupVars == <<pc, owlIdx, timer, wowInits, owlCalls, listeners>>
libVars == <<hasWOW, hasOwl, hasEasing>>
scrollVars == <<scrollTop, handledOffset, navSticky, bttFade>>
animVars == <<fxQueue, animStart, animElapsed>>

----------------------------------------------------------------------------
(* Bounds of the model *)

\* increments are explored while the field's number is below MaxQty
MaxQty == 1
\* at most MaxAnims animations wait in the fx queue
MaxAnims == 1
\* milliseconds between two frames of an animation
FrameMs == 750

(* Constants of the program *)

StickyThreshold == 45
BackToTopThreshold == 300
AnimTarget == 0
AnimDuration == 1500

\* tenths per unit of the fixed-point numbers
Scale == 10

NoScroll == -1

\* offsets a user scroll can report: both sides of both thresholds
Offsets == {0, StickyThreshold, StickyThreshold + 1,
            BackToTopThreshold, BackToTopThreshold + 1}

CarouselSelectors == <<".header-carousel", ".productList-carousel",
                       ".productImg-carousel", ".single-carousel",
                       ".related-carousel">>

AllListeners == {"stickyScroll", "quantityClick", "backToTopScroll",
                 "backToTopClick", "placeholderClick"}

\* anchors a[href="#"] a click can hit
Anchors == [toggle : BOOLEAN, backToTop : BOOLEAN]

\* strings the quantity input can hold at page load
InitialQty == { <<>>, <<"a">>, <<"1">>, <<"0", ".", "5">>, <<"1", "a">> }

----------------------------------------------------------------------------
(* JavaScript numbers and strings of the quantity stepper *)

Digits == <<"0", "1", "2", "3", "4", "5", "6", "7", "8", "9">>

IsDigit(c) == \E i \in 1..Len(Digits) : Digits[i] = c

DigitVal(c) == (CHOOSE i \in 1..Len(Digits) : Digits[i] = c) - 1

NaN == [nan |-> TRUE, v |-> 0]

Num(n) == [nan |-> FALSE, v |-> n]

\* length of the longest prefix of s made of digits
RECURSIVE DigitRun(_)
DigitRun(s) ==
    IF s = <<>> \/ ~IsDigit(Head(s)) THEN 0 ELSE 1 + DigitRun(Tail(s))

\* value of a string of digits
RECURSIVE DigitsVal(_)
DigitsVal(s) ==
    IF s = <<>> THEN 0
    ELSE DigitsVal(SubSeq(s, 1, Len(s) - 1)) * 10 + DigitVal(s[Len(s)])

Drop(s, n) == SubSeq(s, n + 1, Len(s))

\* the longest prefix of s that is a decimal literal: its length and value
DecimalPrefix(s) ==
    LET neg == s # <<>> /\ Head(s) = "-"
        body == IF neg THEN Tail(s) ELSE s
        il == DigitRun(body)
        rest == Drop(body, il)
        dot == rest # <<>> /\ Head(rest) = "."
        fl == IF dot THEN DigitRun(Tail(rest)) ELSE 0
        ok == il > 0 \/ fl > 0
        ip == DigitsVal(SubSeq(body, 1, il))
        fp == IF fl > 0 THEN DigitVal(rest[2]) ELSE 0
        mag == ip * Scale + fp
    IN  [ok |-> ok,
         len |-> (IF neg THEN 1 ELSE 0) + il + (IF dot THEN 1 + fl ELSE 0),
         v |-> IF neg THEN 0 - mag ELSE mag]

\* parseFloat(string): the number of the longest numeric prefix, else NaN
parseFloat(s) ==
    LET p == DecimalPrefix(s) IN IF p.ok THEN Num(p.v) ELSE NaN

\* ToNumber(string), the coercion of `oldValue > 0`: the empty string is 0,
\* a string that is a numeric literal as a whole is its number, else NaN
ToNumber(s) ==
    LET p == DecimalPrefix(s)
    IN  IF s = <<>> THEN Num(0)
        ELSE IF p.ok /\ p.len = Len(s) THEN Num(p.v)
        ELSE NaN

RECURSIVE NatToString(_)
NatToString(n) ==
    IF n < 10 THEN <<Digits[n + 1]>>
    ELSE NatToString(n \div 10) \o <<Digits[(n % 10) + 1]>>

\* String(number), the conversion jQuery's .val(number) applies
NumToString(x) ==
    IF x.nan THEN <<"N", "a", "N">>
    ELSE LET mag == IF x.v < 0 THEN 0 - x.v ELSE x.v
             frac == mag % Scale
         IN  (IF x.v < 0 THEN <<"-">> ELSE <<>>)
             \o NatToString(mag \div Scale)
             \o (IF frac = 0 THEN <<>> ELSE <<".", Digits[frac + 1]>>)

\* x + n and x - n of JavaScript numbers, n in units
Plus(x, n) == IF x.nan THEN NaN ELSE Num(x.v + n * Scale)

Minus(x, n) == IF x.nan THEN NaN ELSE Num(x.v - n * Scale)

\* x > 0 of JavaScript numbers: false for NaN
GreaterThanZero(x) == ~x.nan /\ x.v > 0

----------------------------------------------------------------------------
(* Initial state: the page as loaded, before the script runs *)

Init ==
    /\ pc = "spinner"
    /\ owlIdx = 1
    /\ hasWOW \in BOOLEAN
    /\ hasOwl \in BOOLEAN
    /\ hasEasing \in BOOLEAN
    /\ timer = "none"
    /\ spinnerShow \in BOOLEAN
    /\ wowInits = 0
    /\ owlCalls = <<>>
    /\ listeners = {}
    /\ scrollTop = 0
    /\ handledOffset = NoScroll
    /\ navSticky = FALSE
    /\ bttFade = "none"
    /\ qtyInit \in InitialQty
    /\ qty = qtyInit
    /\ fxQueue = <<>>
    /\ animStart = 0
    /\ animElapsed = 0
    /\ urlFragment = ""
    /\ events = <<>>

----------------------------------------------------------------------------
(* Startup sequence.  A call of a function that is not defined throws a    *)
(* TypeError, which ends the script: pc = "threw".                         *)

\* spinner(0): schedule the timeout
StartSpinner ==
    /\ pc = "spinner"
    /\ timer' = "pending"
    /\ pc' = "wow"
    /\ UNCHANGED <<owlIdx, wowInits, owlCalls, listeners, spinnerShow, qty,
                   qtyInit, urlFragment, events>>
    /\ UNCHANGED <<libVars, scrollVars, animVars>>

\* typeof WOW !== 'undefined'
WowGuard == hasWOW

InitWow ==
    /\ pc = "wow"
    /\ IF WowGuard
       THEN IF hasWOW
            THEN wowInits' = wowInits + 1 /\ pc' = "sticky"
            ELSE wowInits' = wowInits /\ pc' = "threw"
       ELSE wowInits' = wowInits /\ pc' = "sticky"
    /\ UNCHANGED <<owlIdx, timer, owlCalls, listeners, spinnerShow,
                   qty, qtyInit, urlFragment, events>>
    /\ UNCHANGED <<libVars, scrollVars, animVars>>

\* $(target).on(type, handler) / .scroll(handler) / .click(handler)
Register(at, name, next) ==
    /\ pc = at
    /\ listeners' = listeners \cup {name}
    /\ pc' = next
    /\ UNCHANGED <<owlIdx, timer, wowInits, owlCalls, spinnerShow,
                   qty, qtyInit, urlFragment, events>>
    /\ UNCHANGED <<libVars, scrollVars, animVars>>

RegisterSticky == Register("sticky", "stickyScroll", "owl")

\* $.fn && $.fn.owlCarousel
OwlGuardAlways == TRUE

OwlGuard == hasOwl

\* one of the five carousel blocks
InitCarousel ==
    /\ pc = "owl"
    /\ IF OwlGuard /\ ~hasOwl
       THEN pc' = "threw" /\ UNCHANGED <<owlIdx, owlCalls>>
       ELSE /\ owlCalls' = IF OwlGuard
                           THEN Append(owlCalls, CarouselSelectors[owlIdx])
                           ELSE owlCalls
            /\ IF owlIdx = Len(CarouselSelectors)
               THEN pc' = "quantity" /\ owlIdx' = owlIdx
               ELSE pc' = pc /\ owlIdx' = owlIdx + 1
    /\ UNCHANGED <<timer, wowInits, listeners, spinnerShow, qty,
                   qtyInit, urlFragment, events>>
    /\ UNCHANGED <<libVars, scrollVars, animVars>>

RegisterQuantity == Register("quantity", "quantityClick", "bttScroll")

RegisterBackToTopScroll == Register("bttScroll", "backToTopScroll", "bttClick")

RegisterBackToTopClick == Register("bttClick", "backToTopClick", "interceptor")

RegisterInterceptor == Register("interceptor", "placeholderClick", "done")

\* the event loop runs a callback: the script has ended, no click is in dispatch
Idle == pc = "done" /\ events = <<>>

----------------------------------------------------------------------------
(* Spinner timeout *)

SpinnerTimeout ==
    /\ Idle
    /\ timer = "pending"
    /\ timer' = "fired"
    /\ spinnerShow' = FALSE
    /\ UNCHANGED <<pc, owlIdx, wowInits, owlCalls, listeners, qty, qtyInit,
                   urlFragment, events>>
    /\ UNCHANGED <<libVars, scrollVars, animVars>>

----------------------------------------------------------------------------
(* Scroll events *)

\* the part of the page the listeners can read and write
Page ==
    [scrollTop |-> scrollTop, navSticky |-> navSticky, bttFade |-> bttFade,
     qty |-> qty, spinnerShow |-> spinnerShow]

\* window scroll listener: sticky navbar
StickyNavbarScrollAt45(p) ==
    [p EXCEPT !.navSticky = (p.scrollTop >= StickyThreshold)]

StickyNavbarScroll(p) ==
    IF p.scrollTop > StickyThreshold
    THEN [p EXCEPT !.navSticky = TRUE]
    ELSE [p EXCEPT !.navSticky = FALSE]

\* window scroll listener: back to top button
BackToTopScrollAt300(p) ==
    IF p.scrollTop >= BackToTopThreshold
    THEN [p EXCEPT !.bttFade = "in"]
    ELSE [p EXCEPT !.bttFade = "out"]

BackToTopScrollUnstick(p) ==
    IF p.scrollTop > BackToTopThreshold
    THEN [p EXCEPT !.bttFade = "in"]
    ELSE [p EXCEPT !.bttFade = "out", !.navSticky = FALSE]

BackToTopScroll(p) ==
    IF p.scrollTop > BackToTopThreshold
    THEN [p EXCEPT !.bttFade = "in"]
    ELSE [p EXCEPT !.bttFade = "out"]

\* jQuery runs the registered listeners of an event in registration order
DispatchScroll(p) ==
    LET a == IF "stickyScroll" \in listeners THEN StickyNavbarScroll(p) ELSE p
    IN  IF "backToTopScroll" \in listeners THEN BackToTopScroll(a) ELSE a

\* the page takes the state p; h is the offset of the last handled scroll event
ApplyPage(p, h) ==
    /\ scrollTop' = p.scrollTop
    /\ navSticky' = p.navSticky
    /\ bttFade' = p.bttFade
    /\ qty' = p.qty
    /\ spinnerShow' = p.spinnerShow
    /\ handledOffset' = h

\* the scroll offset becomes o; a scroll event is fired when it changed
MoveTo(o) ==
    IF o = scrollTop
    THEN ApplyPage(Page, handledOffset)
    ELSE ApplyPage(DispatchScroll([Page EXCEPT !.scrollTop = o]), o)

\* the user scrolls (a horizontal scroll reports the same vertical offset)
UserScroll ==
    /\ Idle
    /\ \E o \in Offsets :
          ApplyPage(DispatchScroll([Page EXCEPT !.scrollTop = o]), o)
    /\ UNCHANGED <<startupVars, libVars, animVars, qtyInit, urlFragment, events>>

----------------------------------------------------------------------------
(* Quantity stepper *)

\* the number the click handler computes from the string oldValue
QuantityNewVal(oldValue, plus) ==
    IF plus
    THEN Plus(parseFloat(oldValue), 1)
    ELSE IF GreaterThanZero(ToNumber(oldValue))
         THEN Minus(parseFloat(oldValue), 1)
         ELSE Num(0)

\* '.quantity button' click listener: read the input, write the new value
QuantityClick(plus) ==
    /\ Idle
    /\ "quantityClick" \in listeners
    /\ qty' = NumToString(QuantityNewVal(qty, plus))
    /\ UNCHANGED <<startupVars, libVars, scrollVars, animVars, spinnerShow,
                   qtyInit, urlFragment, events>>

QuantityPlusClick ==
    /\ parseFloat(qty).nan \/ parseFloat(qty).v < MaxQty * Scale
    /\ QuantityClick(TRUE)

QuantityMinusClick == QuantityClick(FALSE)

----------------------------------------------------------------------------
(* Clicks on anchors a[href="#"] *)

\* $.easing.easeInOutExpo ? 'easeInOutExpo' : 'swing'
Easing == IF hasEasing THEN "easeInOutExpo" ELSE "swing"

\* the event as the browser creates it; other scripts' listeners that ran
\* before may have called preventDefault (prior)
NewClick(el, prior) ==
    [el |-> el, prior |-> prior, defaultPrevented |-> prior,
     propagationStopped |-> FALSE, animate |-> <<>>, intercepted |-> FALSE,
     enteredPrevented |-> prior]

\* '.back-to-top' click listener: animate and return false, on which jQuery
\* calls preventDefault and stopPropagation
BackToTopClickNoReturn(e) ==
    [e EXCEPT !.animate = <<[target |-> AnimTarget, duration |-> AnimDuration,
                            easing |-> Easing]>>]

BackToTopClick(e) ==
    [e EXCEPT !.animate = <<[target |-> AnimTarget, duration |-> AnimDuration,
                            easing |-> Easing]>>,
              !.defaultPrevented = TRUE,
              !.propagationStopped = TRUE]

\* document click listener delegated to a[href="#"]
PlaceholderClickAlways(e) ==
    [e EXCEPT !.intercepted = TRUE, !.enteredPrevented = e.defaultPrevented,
              !.defaultPrevented = TRUE]

PlaceholderClickNever(e) ==
    [e EXCEPT !.intercepted = TRUE, !.enteredPrevented = e.defaultPrevented]

PlaceholderClick(e) ==
    IF e.el.toggle
    THEN [e EXCEPT !.intercepted = TRUE,
                   !.enteredPrevented = e.defaultPrevented]
    ELSE [e EXCEPT !.intercepted = TRUE,
                   !.enteredPrevented = e.defaultPrevented,
                   !.defaultPrevented = TRUE]

\* the listeners of the element run, then the event bubbles to the document
\* unless its propagation was stopped
DispatchClick(e) ==
    LET a == IF e.el.backToTop /\ "backToTopClick" \in listeners
             THEN BackToTopClick(e) ELSE e
    IN  IF ~a.propagationStopped /\ "placeholderClick" \in listeners
        THEN PlaceholderClick(a) ELSE a

\* .animate() appends to the fx queue; on an empty queue the animation
\* starts at once from the current offset
Animate(reqs) ==
    /\ fxQueue' = fxQueue \o reqs
    /\ IF fxQueue = <<>> /\ reqs # <<>>
       THEN animStart' = scrollTop /\ animElapsed' = 0
       ELSE UNCHANGED <<animStart, animElapsed>>

AnchorClick ==
    /\ Idle
    /\ \E el \in Anchors, prior \in BOOLEAN :
          LET e == DispatchClick(NewClick(el, prior))
          IN  /\ Len(fxQueue) + Len(e.animate) <= MaxAnims
              /\ events' = <<e>>
              /\ Animate(e.animate)
    /\ UNCHANGED <<startupVars, libVars, scrollVars, spinnerShow, qty, qtyInit,
                   urlFragment>>

\* the browser's default action of the click, unless prevented: navigate to
\* the fragment "#", which puts the page at the top
DefaultAction ==
    /\ pc = "done"
    /\ events # <<>>
    /\ events' = <<>>
    /\ IF events[1].defaultPrevented
       THEN urlFragment' = urlFragment /\ ApplyPage(Page, handledOffset)
       ELSE urlFragment' = "#" /\ MoveTo(0)
    /\ UNCHANGED <<startupVars, libVars, animVars, qtyInit>>

----------------------------------------------------------------------------
(* Scroll animation *)

\* offset of an animation from start towards target after t of d milliseconds
Interpolate(start, target, t, d) ==
    IF t >= d THEN target ELSE start + ((target - start) * t) \div d

\* one frame of the running animation; the last frame sets the target,
\* dequeues and starts the next animation of the queue
AnimStep ==
    /\ Idle
    /\ fxQueue # <<>>
    /\ LET a == fxQueue[1]
           t == animElapsed + FrameMs
           pos == Interpolate(animStart, a.target, t, a.duration)
       IN  /\ MoveTo(pos)
           /\ IF t >= a.duration
              THEN /\ fxQueue' = Tail(fxQueue)
                   /\ animStart' = pos
                   /\ animElapsed' = 0
              ELSE /\ fxQueue' = fxQueue
                   /\ animStart' = animStart
                   /\ animElapsed' = t
    /\ UNCHANGED <<startupVars, libVars, qtyInit, urlFragment, events>>

----------------------------------------------------------------------------
(* Specification *)

Next ==
    \/ StartSpinner
    \/ InitWow
    \/ RegisterSticky
    \/ InitCarousel
    \/ RegisterQuantity
    \/ RegisterBackToTopScroll
    \/ RegisterBackToTopClick
    \/ RegisterInterceptor
    \/ SpinnerTimeout
    \/ UserScroll
    \/ QuantityPlusClick
    \/ QuantityMinusClick
    \/ AnchorClick
    \/ DefaultAction
    \/ AnimStep

Spec == Init /\ [][Next]_vars

\* the page of the storefront template: the quantity input starts at "1"
TemplateInit == Init /\ qtyInit = <<"1">>

\* the browser runs a due timer callback and finishes a dispatch it began
FairSpec ==
    /\ TemplateInit
    /\ [][Next]_vars
    /\ SF_vars(AnimStep)
    /\ WF_vars(DefaultAction)

----------------------------------------------------------------------------
(* Properties *)

\* the string is a number, and not a negative one
IsNonNegativeNumeric(s) ==
    s # <<>> /\ ~ToNumber(s).nan /\ ToNumber(s).v >= 0

\* the string is empty or is not a number
IsNonNumericText(s) == s = <<>> \/ ToNumber(s).nan

\* a click on an anchor is in dispatch: its listeners have run
InDispatch == events # <<>>

\* C1: starting from a non-negative numeric field value, the quantity field
\* holds a non-negative number after any sequence of plus and minus clicks.
C1_QuantityNeverNegative ==
    IsNonNegativeNumeric(qtyInit) => IsNonNegativeNumeric(qty)

\* C2: on a field value v >= 0 a plus click writes v + 1 and a minus click
\* writes max(v - 1, 0).
C2_StepByOneClampedAtZero ==
    [][ /\ (IsNonNegativeNumeric(qty) /\ QuantityPlusClick)
            => qty' = NumToString(Num(ToNumber(qty).v + Scale))
        /\ (IsNonNegativeNumeric(qty) /\ QuantityMinusClick)
            => qty' = NumToString(Num(IF ToNumber(qty).v - Scale > 0
                                      THEN ToNumber(qty).v - Scale ELSE 0))
      ]_vars

\* C3: on an empty or non-numeric field a plus click writes 1 and a minus
\* click writes 0; in particular NaN is never written.
C3_NonNumericReadsAsZero ==
    [][ /\ (IsNonNumericText(qty) /\ QuantityPlusClick) => qty' = <<"1">>
        /\ (IsNonNumericText(qty) /\ QuantityMinusClick) => qty' = <<"0">>
      ]_vars

\* C4: once a scroll event reporting offset o has been handled, .nav-bar
\* carries the sticky classes iff o > 45; handling the same offset again
\* leaves the classes as they are.
C4_StickyIffAbove45 ==
    /\ [](handledOffset # NoScroll
            => (navSticky <=> handledOffset > StickyThreshold))
    /\ [][(UserScroll /\ handledOffset' = handledOffset)
            => navSticky' = navSticky]_vars

C4_Witness ==
    /\ handledOffset = StickyThreshold + 1 /\ navSticky
    /\ scrollTop = handledOffset

\* C5: once a scroll event reporting offset o has been handled, the last fade
\* requested on .back-to-top is fadeIn iff o > 300 and fadeOut otherwise,
\* whatever was scrolled before.
C5_BackToTopIffAbove300 ==
    handledOffset # NoScroll
        => /\ bttFade = "in" <=> handledOffset > BackToTopThreshold
           /\ bttFade = "out" <=> handledOffset <= BackToTopThreshold

C5_Witness ==
    /\ handledOffset = BackToTopThreshold /\ bttFade = "out"
    /\ scrollTop = handledOffset /\ navSticky

\* a step of the dispatch of a click on an a[href="#"] without data-bs-toggle:
\* the run of its listeners, or the browser's default action after them
PlaceholderStep ==
    \/ ~InDispatch /\ events' # <<>> /\ ~events'[1].el.toggle
    \/ InDispatch /\ ~events[1].el.toggle

\* the step starts an animation that moves the page away from where it is
SetsInMotion ==
    /\ fxQueue = <<>> /\ fxQueue' # <<>>
    /\ scrollTop # fxQueue'[1].target

\* C6 as claimed: a click on an a[href="#"] without data-bs-toggle, the
\* .back-to-top control included, neither moves the page nor sets it in
\* motion, and leaves the URL fragment as it is.
C6_PlaceholderClickKeepsScroll ==
    [][PlaceholderStep
        => /\ scrollTop' = scrollTop
           /\ ~SetsInMotion
           /\ urlFragment' = urlFragment]_vars

\* C6 amended: a click on an a[href="#"] without data-bs-toggle never changes
\* the URL fragment and never makes the page jump; it starts a scroll
\* animation only when the anchor is the .back-to-top control.
C6_PlaceholderClickNoJump ==
    [][PlaceholderStep
        => /\ scrollTop' = scrollTop
           /\ urlFragment' = urlFragment
           /\ (SetsInMotion => ~InDispatch /\ events'[1].el.backToTop)]_vars

C6_Witness ==
    /\ InDispatch
    /\ ~events[1].el.toggle /\ ~events[1].el.backToTop
    /\ ~events[1].prior /\ events[1].intercepted /\ events[1].defaultPrevented
    /\ scrollTop = BackToTopThreshold + 1

\* C7: when the interceptor is entered for an anchor that has data-bs-toggle,
\* it leaves the event's default-prevented flag as it found it and changes
\* nothing of the page.
C7_ToggleNotIntercepted ==
    [][(~InDispatch /\ events' # <<>>
          /\ events'[1].el.toggle /\ events'[1].intercepted)
        => /\ events'[1].defaultPrevented = events'[1].enteredPrevented
           /\ UNCHANGED <<scrollVars, animVars, qty, spinnerShow,
                          urlFragment>>]_vars

C7_Witness ==
    /\ InDispatch
    /\ events[1].el.toggle /\ events[1].intercepted
    /\ ~events[1].prior /\ ~events[1].defaultPrevented

\* C8: whichever of WOW and owlCarousel is present, the startup sequence
\* never throws, and at its end the timer is scheduled, the five listeners
\* are registered, WOW is initialised iff present, and owlCarousel is called
\* once per carousel selector iff present.
C8_StartupCompletes ==
    /\ pc # "threw"
    /\ pc = "done"
        => /\ timer # "none"
           /\ listeners = AllListeners
           /\ wowInits = (IF hasWOW THEN 1 ELSE 0)
           /\ owlCalls = (IF hasOwl THEN CarouselSelectors ELSE <<>>)

C8_Witness ==
    pc = "done" /\ ~hasWOW /\ ~hasOwl /\ timer = "pending"

\* C9: a click on .back-to-top requests an animation of the scroll offset to
\* 0 over 1500 ms with the easing the plugin offers, and has its default
\* prevented; a queued animation leads to scroll offset 0.
C9_BackToTopScrollsToZero ==
    /\ []((InDispatch /\ events[1].el.backToTop)
            => /\ events[1].animate
                    = <<[target |-> 0, duration |-> 1500,
                         easing |-> IF hasEasing THEN "easeInOutExpo"
                                    ELSE "swing"]>>
               /\ fxQueue # <<>>
               /\ fxQueue[Len(fxQueue)] = events[1].animate[1]
               /\ events[1].defaultPrevented)
    /\ (fxQueue # <<>>) ~> (scrollTop = 0)

C9_Witness ==
    /\ InDispatch /\ events[1].el.backToTop /\ ~events[1].prior
    /\ scrollTop = BackToTopThreshold + 1
    /\ fxQueue # <<>> /\ animStart = scrollTop

\* a step in which a scroll event is dispatched to the listeners
ScrollEventStep == UserScroll \/ handledOffset' # handledOffset

\* C10: for every scroll event, running the two scroll listeners in either
\* order gives the page the dispatch produces; the sticky listener changes
\* only the classes of .nav-bar, the back-to-top listener only the fade of
\* .back-to-top, so offset, quantity input and spinner stay as they are.
C10_ScrollListenersCommute ==
    [][ScrollEventStep =>
         LET p == [Page EXCEPT !.scrollTop = handledOffset']
             s == StickyNavbarScroll(p)
             b == BackToTopScroll(p)
         IN  /\ Page' = BackToTopScroll(s)
             /\ Page' = StickyNavbarScroll(b)
             /\ s = [p EXCEPT !.navSticky = s.navSticky]
             /\ b = [p EXCEPT !.bttFade = b.bttFade]
       ]_vars

C10_Witness ==
    /\ handledOffset = StickyThreshold /\ ~navSticky /\ bttFade = "out"
    /\ qty # qtyInit /\ timer = "pending" /\ spinnerShow

====
